---- MODULE Spec2Model ----
(***************************************************************************)
(* The in-memory cache strategy of @cache-me/base and the cacheMe wrapper. *)
(*                                                                         *)
(* base/src/in-memory-cache.ts holds two generations of the strategy with  *)
(* the Partial<{ttlInMs, ...}> configuration:                              *)
(*   impl = "closure": lines 1-228, entries are plain records whose value  *)
(*                     is a getter closure (updateValueInCache, ...);      *)
(*   impl = "entry"  : lines 230-412, class Entry (refresh, delete, ...).  *)
(* Both are modelled; cfg.impl selects the one a behaviour runs.           *)
(*                                                                         *)
(* Time is a discrete clock.  Timers are exact: a timer whose deadline has *)
(* been reached fires before the clock advances and before any other       *)
(* macrotask runs.  A continuation that waits only on an already settled   *)
(* internal promise (pc = "commit") is a microtask: no timer fires and no  *)
(* time passes before it has run, while other continuations and calls may  *)
(* still be interleaved with it.  Awaiting the underlying function or the  *)
(* cacheWhen predicate may take any amount of time.                        *)
(***************************************************************************)
EXTENDS Integers, Sequences, FiniteSets, TLC

\* ------------------------------------------------------------------ bounds
NumKeys == 2
MaxTime == 4
MaxCalls == 3

Keys == 1..NumKeys
NoKey == 0
None == <<>>

\* The values the configuration options are drawn from (0: option absent).
TtlValues == {0, 2}
IntervalValues == {0, 2}
CooldownValues == {0, 3}
LimitValues == {0, 1, 2}
CacheWhenValues == {"none", "any"}
Impls == {"closure", "entry"}

\* type Config<ReturnValue>
Config ==
    [impl : Impls, ttl : TtlValues, reset : BOOLEAN, interval : IntervalValues,
     rar : BOOLEAN, cooldown : CooldownValues, limit : LimitValues,
     cw : CacheWhenValues]

VARIABLES
    cfg,            \* this.config (and which generation of the class runs)
    now,            \* new Date().getTime()
    cache,          \* this.cache: key -> entry object (None: no entry)
    ents,           \* the entry objects alive on the heap, by identity
    ring,           \* this.cachedValuesOrdered
    persistCounter, \* this.persistCounter
    calls,          \* number of invocations of the underlying function, per key
    procs,          \* suspended async functions (persist, refresh)
    unresolved,     \* promises of the underlying function not yet settled
    failed,         \* invocations made by a refresh that threw or rejected
    redis,          \* the Redis server and the commands sent and not yet executed
    ev,             \* the step taken last (observation only)
    hist            \* history of the run (observation only)

vars == <<cfg, now, cache, ents, ring, persistCounter, calls, procs,
          unresolved, failed, redis, ev, hist>>

\* ------------------------------------------------------------------ timers
\* NodeJS.Timeout: never created, armed for a deadline, cleared, or fired.
NoTimer == [st |-> "none", at |-> 0]
Cleared == [st |-> "cleared", at |-> 0]
Fired == [st |-> "fired", at |-> 0]
Armed(t) == [st |-> "armed", at |-> t]

\* clearTimeout / clearInterval behind `timer && clear...(timer)`
clearTimer(t) == IF t.st = "none" THEN t ELSE Cleared

\* a refresh() that arms a timer where none was created
refreshTimerArms(t, at) == Armed(at)

\* timeout.refresh(): re-arms an armed timer and one that has already
\* called its callback; a cleared timer stays cleared.
refreshTimer(t, at) == IF t.st \in {"armed", "fired"} THEN Armed(at) ELSE t

Due(t) == t.st = "armed" /\ t.at <= now

\* ------------------------------------------------------------------- Redis
\* A Redis without keys and a connection without commands under way.  A key
\* that is not set has the reply null (None) for its string.
NoRedis ==
    [store |-> [k \in Keys |-> [str |-> None, px |-> 0 - 1, of |-> None]],
     queue |-> <<>>]

\* ------------------------------------------------------------------ helpers
RECURSIVE SumOver(_, _)
SumOver(f, S) ==
    IF S = {} THEN 0
    ELSE LET x == CHOOSE y \in S : TRUE IN f[x] + SumOver(f, S \ {x})

Total(c) == SumOver(c, Keys)

World ==
    [cache |-> cache, ents |-> ents, ring |-> ring, ctr |-> persistCounter,
     calls |-> calls, procs |-> procs, unresolved |-> unresolved,
     failed |-> failed, redis |-> redis]

Restrict(f, S) == [x \in S |-> f[x]]

\* Entry objects nothing refers to any more are collected: an object stays
\* alive while the map holds it, one of its timers is armed, or a suspended
\* refresh holds a reference to it.
Live(W) ==
    {id \in DOMAIN W.ents :
        \/ \E k \in Keys : W.cache[k] = id
        \/ W.ents[id].exp.st = "armed"
        \/ W.ents[id].ref.st = "armed"
        \/ \E p \in W.procs : p.ent = id}

Micro(P) == \E p \in P : p.pc \in {"commit", "retrieved"}

NoDue == \A id \in DOMAIN ents : ~Due(ents[id].exp) /\ ~Due(ents[id].ref)

\* The invocations a behaviour may make in all.  A time to live longer than
\* the refresh interval needs one more: every Entry ticks before it expires.
CallBudget ==
    IF cfg.interval > 0 /\ cfg.ttl > cfg.interval THEN MaxCalls + 1
    ELSE MaxCalls

Install(W) ==
    /\ Total(W.calls) <= CallBudget
    /\ cache' = W.cache
    /\ ents' = Restrict(W.ents, Live(W))
    /\ ring' = W.ring
    /\ persistCounter' = W.ctr
    /\ calls' = W.calls
    /\ procs' = W.procs
    /\ unresolved' = W.unresolved
    /\ failed' = W.failed
    /\ redis' = W.redis

\* ------------------------------------------------- generation "closure"
\* InMemoryCache.getRefreshInterval: setInterval(..., refreshIntervalInMs)
getRefreshInterval ==
    IF cfg.interval > 0 THEN Armed(now + cfg.interval) ELSE NoTimer

\* an expiration timeout that is armed whether ttlInMs is set or not
expirationByDefault == Armed(now + 1)

\* InMemoryCache.getExpirationTimeout: setTimeout(..., ttlInMs)
getExpirationTimeout ==
    IF cfg.ttl > 0 THEN Armed(now + cfg.ttl) ELSE NoTimer

\* InMemoryCache.toCacheEntry (the getter closure is the fields val and exp)
toCacheEntry(key, value) ==
    [key |-> key, val |-> value, modified |-> now, created |-> now,
     exp |-> getExpirationTimeout, ref |-> getRefreshInterval]

\* InMemoryCache.removeValueFromCache
removeValueFromCache(W, key) ==
    LET id == W.cache[key] IN
    IF id = None THEN W
    ELSE [W EXCEPT !.ents[id].exp = clearTimer(@),
                   !.ents[id].ref = clearTimer(@),
                   !.cache[key] = None]

\* the `if (this.config.limit)` block of insertValueIntoCache
evictClosure(W, key) ==
    IF cfg.limit > 0
    THEN LET removeKey == W.ring[W.ctr]
             W1 == [W EXCEPT !.ring[W.ctr] = key,
                             !.ctr = (W.ctr + 1) % cfg.limit]
         IN IF removeKey # NoKey THEN removeValueFromCache(W1, removeKey) ELSE W1
    ELSE W

\* InMemoryCache.insertValueIntoCache; the entry object is named by the
\* value of the invocation that produced it
insertValueIntoCache(W, key, value) ==
    evictClosure([W EXCEPT !.cache[key] = value,
                           !.ents = (value :> toCacheEntry(key, value)) @@ @],
                 key)

\* InMemoryCache.updateValueInCache up to its first await: the lookup, the
\* cooldown check and the (not awaited) call of entry.fetchFn
updateValueAfterCooldown(W, key, cooldown) ==
    LET id == W.cache[key] IN
    IF id = None THEN W
    ELSE LET inCooldown == W.ents[id].modified + cooldown >= now
             v == <<key, W.calls[key] + 1>>
         IN IF inCooldown THEN W
            ELSE [W EXCEPT !.calls[key] = @ + 1,
                           !.unresolved = @ \cup {v},
                           !.procs = @ \cup
                               {[kind |-> "update", key |-> key, ent |-> id,
                                 val |-> v,
                                 pc |-> IF cfg.cw # "none" THEN "cw" ELSE "commit"]}]

updateValueInCache(W, key, cooldown) ==
    LET id == W.cache[key] IN
    IF id = None THEN W
    ELSE LET inCooldown == W.ents[id].modified + cooldown > now
             v == <<key, W.calls[key] + 1>>
         IN IF inCooldown THEN W
            ELSE [W EXCEPT !.calls[key] = @ + 1,
                           !.unresolved = @ \cup {v},
                           !.procs = @ \cup
                               {[kind |-> "update", key |-> key, ent |-> id,
                                 val |-> v,
                                 pc |-> IF cfg.cw # "none" THEN "cw" ELSE "commit"]}]

\* the end of updateValueInCache: entry.value = get; entry.modified = now;
\* this.cache.set(key, entry), on the entry object looked up at the start
updateWrite(W, p) ==
    [W EXCEPT !.ents[p.ent].val = p.val,
              !.ents[p.ent].modified = now,
              !.cache[p.key] = p.ent]

\* the getter built by InMemoryCache.getValueGetter, called by retrieve
getValueGetter(W, key) ==
    LET id == W.cache[key]
        W1 == IF cfg.rar THEN updateValueInCache(W, key, cfg.cooldown) ELSE W
    IN IF cfg.reset
       THEN [W1 EXCEPT !.ents[id].exp = refreshTimer(@, now + cfg.ttl)]
       ELSE W1

\* the callback of the expiration timeout armed by getExpirationTimeout
expireClosure(W, id) ==
    [W EXCEPT !.ents[id].exp = Fired,
              !.ents[id].ref = clearTimer(@),
              !.cache[W.ents[id].key] = None]

\* --------------------------------------------------- generation "entry"
\* Entry.setupRefreshInterval
setupRefreshInterval ==
    IF cfg.interval > 0 THEN Armed(now + cfg.interval) ELSE NoTimer

\* Entry.setupExpirationTimeout
setupExpirationTimeout ==
    IF cfg.ttl > 0 THEN Armed(now + cfg.ttl) ELSE NoTimer

\* Entry.constructor
newEntry(key, value) ==
    [key |-> key, val |-> value, modified |-> now, created |-> now,
     exp |-> setupExpirationTimeout, ref |-> setupRefreshInterval]

\* Entry.delete
entryDelete(W, id) ==
    [W EXCEPT !.ents[id].ref = clearTimer(@),
              !.ents[id].exp = clearTimer(@),
              !.cache[W.ents[id].key] = None]

\* the `if (this.config.limit)` block of persist
evictEntry(W, key) ==
    IF cfg.limit > 0
    THEN LET removeKey == W.ring[W.ctr]
             W1 == [W EXCEPT !.ring[W.ctr] = key,
                             !.ctr = (W.ctr + 1) % cfg.limit]
         IN IF removeKey # NoKey /\ W1.cache[removeKey] # None
            THEN entryDelete(W1, W1.cache[removeKey])
            ELSE W1
    ELSE W

\* persist from "Insert value into cache." on
persistInsert(W, key, value) ==
    evictEntry([W EXCEPT !.cache[key] = value,
                         !.ents = (value :> newEntry(key, value)) @@ @],
               key)

\* Entry.refresh up to `await this.fetchFn()`
entryRefresh(W, id) ==
    LET e == W.ents[id]
        inCooldown == e.modified + cfg.cooldown > now
        v == <<e.key, W.calls[e.key] + 1>>
    IN IF inCooldown THEN W
       ELSE [W EXCEPT !.calls[e.key] = @ + 1,
                      !.procs = @ \cup
                          {[kind |-> "refresh", key |-> e.key, ent |-> id,
                            val |-> v, pc |-> "fetch"]}]

\* a refresh whose result is dropped
refreshWriteLost(W, p) == W

\* the end of Entry.refresh: this.value = value; this.modified = now
refreshWrite(W, p) ==
    [W EXCEPT !.ents[p.ent].val = p.val, !.ents[p.ent].modified = now]

\* Entry.getValue
getValue(W, key) ==
    LET id == W.cache[key]
        W1 == IF cfg.rar THEN entryRefresh(W, id) ELSE W
    IN IF cfg.reset
       THEN [W1 EXCEPT !.ents[id].exp = refreshTimer(@, now + cfg.ttl)]
       ELSE W1

\* ------------------------------------------------------ both generations
Closure == cfg.impl = "closure"

\* a read that leaves the Entry and its timers alone
retrieveIdle(W, key) == W

\* a read that restarts the Entry's expiration timeout
retrievePostpones(W, key) ==
    [W EXCEPT !.ents[W.cache[key]].exp = refreshTimer(@, now + cfg.ttl)]

\* a read that refreshes the value whatever the configuration says
retrieveRefreshes(W, key) ==
    IF Closure THEN updateValueInCache(W, key, 0)
    ELSE entryRefresh(W, W.cache[key])

\* a read that takes the Entry out of the map
retrieveDrops(W, key) == [W EXCEPT !.cache[key] = None]

\* a read that goes through to the underlying function every time
retrieveInvokes(W, key) == [W EXCEPT !.calls[key] = @ + 1]

\* a read that counts as an insertion for the eviction order
retrieveTouchesRing(W, key) ==
    IF cfg.limit > 0
    THEN [W EXCEPT !.ring[W.ctr] = key, !.ctr = (W.ctr + 1) % cfg.limit]
    ELSE W

\* what retrieve does to the state on a hit
retrieve(W, key) == IF Closure THEN getValueGetter(W, key) ELSE getValue(W, key)

\* persist that returns the value and does not store it
insertForgets(W, key, value) == W

\* persist that stores the value and evicts nothing
insertKeepsAll(W, key, value) ==
    [W EXCEPT !.cache[key] = value,
              !.ents = (value :> newEntry(key, value)) @@ @]

\* persist that files the value under every key, as a cache that does not
\* tell the arguments apart would
insertShared(W, key, value) ==
    [W EXCEPT !.cache = [k \in Keys |-> value],
              !.ents = (value :> toCacheEntry(key, value)) @@ @]

\* persist that leaves the ring alone when the key already holds a slot of it
insertReusesSlot(W, key, value) ==
    IF cfg.limit > 0 /\ \E slot \in DOMAIN W.ring : W.ring[slot] = key
    THEN [W EXCEPT !.cache[key] = value,
                   !.ents = (value :> newEntry(key, value)) @@ @]
    ELSE IF Closure THEN insertValueIntoCache(W, key, value)
    ELSE persistInsert(W, key, value)

\* what persist does once the value is accepted
insert(W, key, value) ==
    IF Closure THEN insertValueIntoCache(W, key, value)
    ELSE persistInsert(W, key, value)

\* the expiration timeout's callback
expire(W, id) == IF Closure THEN expireClosure(W, id) ELSE entryDelete(W, id)

\* ------------------------------------------------------------ observation
Event(op, key, hit, val, fn, age, since) ==
    [op |-> op, key |-> key, hit |-> hit, val |-> val, fn |-> fn,
     age |-> age, since |-> since]

Age(W, id) == IF id = None THEN 0 - 1 ELSE now - W.ents[id].modified

\* The history after a step `op` on key k that leads to W2.  A history is
\* kept only for the options that are configured.
HistStep(W2, op, k, fn) ==
    [hist EXCEPT
        !.removed = [j \in Keys |->
            IF op = "insert" /\ j = k THEN W2.cache[j] = None
            ELSE IF cache[j] # None /\ W2.cache[j] = None THEN TRUE
            ELSE @[j]],
        !.insOrder = IF op = "insert" /\ cfg.limit > 0 THEN Append(@, k) ELSE @,
        !.written = IF cfg.ttl > 0 /\ ~cfg.reset /\ op \in {"insert", "write"}
                    THEN [@ EXCEPT ![k] = now] ELSE @,
        !.touched = IF cfg.ttl > 0 /\ cfg.reset /\ op \in {"insert", "read"}
                       /\ ~hist.gap[k]
                    THEN [@ EXCEPT ![k] = now] ELSE @,
        !.overlap = IF op = "miss"
                       /\ \E p \in procs : p.kind = "persist" /\ p.key = k
                    THEN [@ EXCEPT ![k] = TRUE] ELSE @,
        !.lastTrig = IF op = "read" /\ fn /\ cfg.cooldown > 0
                     THEN [@ EXCEPT ![k] = now] ELSE @,
        !.wasRead = IF (cfg.ttl > 0 /\ ~cfg.reset) \/ cfg.interval > 0
                    THEN IF op = "read" THEN [@ EXCEPT ![k] = TRUE]
                         ELSE IF op = "insert" THEN [@ EXCEPT ![k] = FALSE]
                         ELSE @
                    ELSE @,
        !.gone = IF cfg.interval > 0
                 THEN [j \in Keys |->
                         IF op = "insert" /\ j = k THEN None
                         ELSE IF cache[j] # None /\ W2.cache[j] = None
                         THEN cache[j]
                         ELSE @[j]]
                 ELSE @,
        !.asked = IF cfg.rar /\ cfg.cooldown = 0 /\ op \in {"read", "miss"}
                  THEN [@ EXCEPT ![k] = @ + 1] ELSE @]

\* ------------------------------------------------------------------- Init
InitWith(C) ==
    /\ cfg \in C
    /\ now = 0
    /\ cache = [k \in Keys |-> None]
    /\ ents = <<>>
    /\ ring = [i \in 0..(cfg.limit - 1) |-> NoKey]
    /\ persistCounter = 0
    /\ calls = [k \in Keys |-> 0]
    /\ procs = {}
    /\ unresolved = {}
    /\ failed = {}
    /\ redis = NoRedis
    /\ ev = Event("init", NoKey, FALSE, None, FALSE, 0 - 1, 0 - 1)
    /\ hist = [removed |-> [k \in Keys |-> FALSE],
               insOrder |-> <<>>,
               written |-> [k \in Keys |-> 0 - 1],
               touched |-> [k \in Keys |-> 0 - 1],
               gap |-> [k \in Keys |-> FALSE],
               overlap |-> [k \in Keys |-> FALSE],
               lastTrig |-> [k \in Keys |-> 0 - 1],
               wasRead |-> [k \in Keys |-> FALSE],
               gone |-> [k \in Keys |-> None],
               asked |-> [k \in Keys |-> 0],
               eager |-> {}]

\* ---------------------------------------------------------------- actions
\* cacheMe's func(...params): retrieve, and on a miss persist up to its
\* `await fetchFn()`
Call(k) ==
    /\ NoDue
    /\ IF cache[k] # None
       THEN LET W2 == retrieve(World, k)
                fn == W2.calls[k] # calls[k]
            IN /\ Install(W2)
               /\ ev' = Event("read", k, TRUE, ents[cache[k]].val, fn,
                              Age(World, cache[k]),
                              IF fn /\ hist.lastTrig[k] >= 0
                              THEN now - hist.lastTrig[k] ELSE 0 - 1)
               /\ hist' = HistStep(W2, "read", k, fn)
       ELSE LET v == <<k, calls[k] + 1>>
                W2 == [World EXCEPT
                          !.calls[k] = @ + 1,
                          !.procs = @ \cup {[kind |-> "persist", key |-> k,
                                             ent |-> None, val |-> v,
                                             pc |-> "fetch"]}]
            IN /\ Install(W2)
               /\ ev' = Event("miss", k, FALSE, v, TRUE, 0 - 1, 0 - 1)
               /\ hist' = HistStep(W2, "miss", k, TRUE)
    /\ UNCHANGED <<cfg, now>>

\* a warm-up that invokes the underlying function before cacheMe returns
warmUpAtOnce(W, k) ==
    [W EXCEPT !.calls[k] = @ + 1,
              !.procs = @ \cup {[kind |-> "persist", key |-> k, ent |-> None,
                                 val |-> <<k, W.calls[k] + 1>>, pc |-> "fetch"]}]

\* cacheMe's eager loop, one `func(...params)` that is not awaited: func
\* runs up to `await cacheStrategy.retrieve(key)`, which misses
warmUp(W, k) ==
    [W EXCEPT !.procs = @ \cup {[kind |-> "persist", key |-> k, ent |-> None,
                                 val |-> None, pc |-> "retrieved"]}]

RECURSIVE cacheMe(_, _)
\* cacheMe(fn, cacheStrategy, ...eager) on a new strategy W, up to its return
cacheMe(W, eager) ==
    IF eager = {} THEN W
    ELSE LET k == CHOOSE x \in eager : TRUE
         IN cacheMe(warmUp(W, k), eager \ {k})

\* func of a warm-up resumes after `await cacheStrategy.retrieve(key)` and
\* calls persist, which runs up to its `await fetchFn()`
EagerPersist(p) ==
    /\ NoDue
    /\ p.kind = "persist" /\ p.pc = "retrieved"
    /\ LET v == <<p.key, calls[p.key] + 1>>
           W2 == [World EXCEPT
                     !.calls[p.key] = @ + 1,
                     !.procs = (@ \ {p}) \cup {[p EXCEPT !.val = v,
                                                          !.pc = "fetch"]}]
       IN /\ Install(W2)
          /\ ev' = Event("warm", p.key, FALSE, v, TRUE, 0 - 1, 0 - 1)
    /\ hist' = hist
    /\ UNCHANGED <<cfg, now>>

Without(W, p) == [W EXCEPT !.procs = @ \ {p}]
Moved(W, p, pc) == [W EXCEPT !.procs = (@ \ {p}) \cup {[p EXCEPT !.pc = pc]}]

\* a persist that answers with what the map holds for its key
persistReturnsCached(W, p) ==
    IF W.cache[p.key] # None THEN W.ents[W.cache[p.key]].val ELSE p.val

\* `return value` of persist: the result of its own `await fetchFn()`
persistReturns(W, p) == p.val

\* persist: the value is cached and returned
Accept(p) ==
    LET W2 == insert(Without(World, p), p.key, p.val)
    IN /\ Install(W2)
       /\ ev' = Event("persisted", p.key, TRUE, persistReturns(W2, p), FALSE,
                      0 - 1, 0 - 1)
       /\ hist' = HistStep(W2, "insert", p.key, FALSE)

\* a persist that caches the value cacheWhen has turned down
RejectCaches(p) == Accept(p)

\* persist: cacheWhen said no, the value is returned and not cached
Reject(p) ==
    /\ Install(Without(World, p))
    /\ ev' = Event("persisted", p.key, FALSE, persistReturns(World, p), FALSE,
                   0 - 1, 0 - 1)
    /\ hist' = hist

\* persist resumes after `await fetchFn()`
PersistFetched(p) ==
    /\ NoDue
    /\ p.kind = "persist" /\ p.pc = "fetch"
    /\ IF cfg.cw = "none"
       THEN Accept(p)
       ELSE /\ Install(Moved(World, p, "cw"))
            /\ ev' = Event("fetched", p.key, FALSE, p.val, FALSE, 0 - 1, 0 - 1)
            /\ hist' = hist
    /\ UNCHANGED <<cfg, now>>

\* persist resumes after `await this.config.cacheWhen(value)`
PersistCacheWhen(p, executeInsert) ==
    /\ NoDue
    /\ p.kind = "persist" /\ p.pc = "cw"
    /\ IF executeInsert THEN Accept(p) ELSE Reject(p)
    /\ UNCHANGED <<cfg, now>>

\* a persist that caches what it holds although it failed
persistFailedInserts(W, p) == insert(Without(W, p), p.key, p.val)

\* persist leaves by the exception of an `await`: nothing was done before it
persistFailed(W, p) == Without(W, p)

\* `await fetchFn()` throws in persist: the underlying function threw or its
\* promise rejected
PersistFetchFails(p) ==
    /\ NoDue
    /\ p.kind = "persist" /\ p.pc = "fetch"
    /\ Install(persistFailed(World, p))
    /\ ev' = Event("failed", p.key, FALSE, p.val, TRUE, 0 - 1, 0 - 1)
    /\ hist' = hist
    /\ UNCHANGED <<cfg, now>>

\* `await this.config.cacheWhen(value)` throws in persist
PersistCacheWhenFails(p) ==
    /\ NoDue
    /\ p.kind = "persist" /\ p.pc = "cw"
    /\ Install(persistFailed(World, p))
    /\ ev' = Event("failed", p.key, FALSE, p.val, FALSE, 0 - 1, 0 - 1)
    /\ hist' = hist
    /\ UNCHANGED <<cfg, now>>

\* a refresh that stores the value cacheWhen has turned down
refreshRejectedWrites(W, p) ==
    [W EXCEPT !.procs = @ \ {p},
              !.ents[p.ent].val = p.val,
              !.ents[p.ent].modified = now]

\* a refresh returns at `if (!executeUpdate)`: nothing is written
refreshRejected(W, p) == Without(W, p)

\* updateValueInCache resumes after `await this.config.cacheWhen(value)`
UpdateCacheWhen(p, executeUpdate) ==
    /\ NoDue
    /\ p.kind = "update" /\ p.pc = "cw"
    /\ Install(IF executeUpdate THEN Moved(World, p, "commit")
               ELSE refreshRejected(World, p))
    /\ ev' = Event("updateCw", p.key, executeUpdate, p.val, FALSE, 0 - 1, 0 - 1)
    /\ hist' = hist
    /\ UNCHANGED <<cfg, now>>

\* updateValueInCache resumes after `await this.getValueGetter(...)`
UpdateCommit(p) ==
    /\ p.kind = "update" /\ p.pc = "commit"
    /\ LET W2 == updateWrite(Without(World, p), p)
       IN /\ Install(W2)
          /\ hist' = HistStep(W2, "write", p.key, FALSE)
    /\ ev' = Event("written", p.key, cache[p.key] = p.ent, p.val, FALSE,
                   0 - 1, 0 - 1)
    /\ UNCHANGED <<cfg, now>>

\* the promise returned by the underlying function settles
Resolve(v) ==
    /\ NoDue
    /\ v \in unresolved
    /\ unresolved' = unresolved \ {v}
    /\ ev' = Event("resolved", v[1], FALSE, v, FALSE, 0 - 1, 0 - 1)
    /\ UNCHANGED <<cfg, now, cache, ents, ring, persistCounter, calls, procs,
                   failed, redis, hist>>

\* the promise returned by the underlying function rejects
Rejects(v) ==
    /\ NoDue
    /\ v \in unresolved
    /\ unresolved' = unresolved \ {v}
    /\ failed' = failed \cup {v}
    /\ ev' = Event("rejected", v[1], FALSE, v, FALSE, 0 - 1, 0 - 1)
    /\ UNCHANGED <<cfg, now, cache, ents, ring, persistCounter, calls, procs,
                   redis, hist>>

\* updateValueInCache: `entry.fetchFn()` throws, there is no promise and the
\* function ends there.  The throw is taken at the first step of the
\* suspended function, which nothing has looked at meanwhile.
UpdateThrows(p) ==
    /\ NoDue \/ p.pc = "commit"
    /\ p.kind = "update" /\ p.val \in unresolved
    /\ Install([Without(World, p) EXCEPT !.unresolved = @ \ {p.val},
                                         !.failed = @ \cup {p.val}])
    /\ ev' = Event("refreshFailed", p.key, FALSE, p.val, FALSE, 0 - 1, 0 - 1)
    /\ hist' = hist
    /\ UNCHANGED <<cfg, now>>

\* Entry.refresh leaves by the exception of `await this.fetchFn()`
refreshFailed(W, p) == [Without(W, p) EXCEPT !.failed = @ \cup {p.val}]

\* Entry.refresh: `await this.fetchFn()` throws, the underlying function
\* threw or its promise rejected
RefreshFetchFails(p) ==
    /\ NoDue
    /\ p.kind = "refresh" /\ p.pc = "fetch"
    /\ Install(refreshFailed(World, p))
    /\ ev' = Event("refreshFailed", p.key, FALSE, p.val, FALSE, 0 - 1, 0 - 1)
    /\ hist' = hist
    /\ UNCHANGED <<cfg, now>>

\* Entry.refresh: this.value = value; this.modified = now
RefreshDone(p) ==
    LET W2 == refreshWrite(Without(World, p), p)
    IN /\ Install(W2)
       /\ hist' = IF cache[p.key] = p.ent
                  THEN HistStep(W2, "write", p.key, FALSE) ELSE hist
       /\ ev' = Event("written", p.key, cache[p.key] = p.ent, p.val, FALSE,
                      0 - 1, 0 - 1)

\* Entry.refresh resumes after `await this.fetchFn()`
RefreshFetched(p) ==
    /\ NoDue
    /\ p.kind = "refresh" /\ p.pc = "fetch"
    /\ IF cfg.cw = "none"
       THEN RefreshDone(p)
       ELSE /\ Install(Moved(World, p, "cw"))
            /\ ev' = Event("fetched", p.key, FALSE, p.val, FALSE, 0 - 1, 0 - 1)
            /\ hist' = hist
    /\ UNCHANGED <<cfg, now>>

\* Entry.refresh resumes after `await this.config.cacheWhen(value)`
RefreshCacheWhen(p, executeUpdate) ==
    /\ NoDue
    /\ p.kind = "refresh" /\ p.pc = "cw"
    /\ IF executeUpdate
       THEN RefreshDone(p)
       ELSE /\ Install(refreshRejected(World, p))
            /\ ev' = Event("updateCw", p.key, FALSE, p.val, FALSE, 0 - 1, 0 - 1)
            /\ hist' = hist
    /\ UNCHANGED <<cfg, now>>

\* Timers of the same duration fire in the order they were armed.  The two
\* timers of an Entry are armed together when the Entry is built: the first
\* generation arms the refresh interval first (toCacheEntry), the second the
\* expiration timeout (Entry.constructor).
ArmedTogether(id) ==
    /\ cfg.ttl = cfg.interval
    /\ Due(ents[id].exp) /\ Due(ents[id].ref)
    /\ ents[id].exp.at = ents[id].created + cfg.ttl
    /\ ents[id].ref.at = ents[id].exp.at

\* the expiration timeout of entry object id fires
ExpirationFires(id) ==
    /\ ~Micro(procs)
    /\ Due(ents[id].exp)
    /\ ~(Closure /\ ArmedTogether(id))
    /\ LET W2 == expire(World, id)
           k == ents[id].key
       IN /\ Install(W2)
          /\ ev' = Event("expire", k, cache[k] # None, id, FALSE,
                         now - ents[id].created, 0 - 1)
          /\ hist' = HistStep(W2, "expire", k, FALSE)
    /\ UNCHANGED <<cfg, now>>

\* the refresh interval of entry object id ticks
IntervalFires(id) ==
    /\ ~Micro(procs)
    /\ Due(ents[id].ref)
    /\ ~(~Closure /\ ArmedTogether(id))
    /\ LET k == ents[id].key
           W1 == [World EXCEPT !.ents[id].ref = Armed(@.at + cfg.interval)]
           W2 == IF Closure THEN updateValueInCache(W1, k, 0)
                 ELSE entryRefresh(W1, id)
           target == IF Closure THEN cache[k] ELSE id
       IN /\ Install(W2)
          /\ ev' = Event("tick", k, target # None, id, W2.calls[k] # calls[k],
                         Age(World, target), 0 - 1)
          /\ hist' = hist
    /\ UNCHANGED <<cfg, now>>

\* one millisecond passes
Tick ==
    /\ NoDue
    /\ ~Micro(procs)
    /\ now < MaxTime
    /\ now' = now + 1
    /\ ev' = Event("time", NoKey, FALSE, None, FALSE, 0 - 1, 0 - 1)
    /\ hist' = [hist EXCEPT !.gap = [k \in Keys |->
                   @[k] \/ (hist.touched[k] >= 0
                            /\ now + 1 - hist.touched[k] >= cfg.ttl)]]
    /\ UNCHANGED <<cfg, cache, ents, ring, persistCounter, calls, procs,
                   unresolved, failed, redis>>

\* ---------------------------------------------------------- specifications
AllConfigs == Config

Init == InitWith(AllConfigs)

Next ==
    \/ \E k \in Keys : Call(k)
    \/ \E p \in procs : PersistFetched(p)
    \/ \E p \in procs, b \in BOOLEAN : PersistCacheWhen(p, b)
    \/ \E p \in procs : PersistFetchFails(p)
    \/ \E p \in procs : PersistCacheWhenFails(p)
    \/ \E p \in procs, b \in BOOLEAN : UpdateCacheWhen(p, b)
    \/ \E p \in procs : UpdateCommit(p)
    \/ \E p \in procs : RefreshFetched(p)
    \/ \E p \in procs, b \in BOOLEAN : RefreshCacheWhen(p, b)
    \/ \E p \in procs : UpdateThrows(p)
    \/ \E p \in procs : RefreshFetchFails(p)
    \/ \E v \in unresolved : Resolve(v)
    \/ \E v \in unresolved : Rejects(v)
    \/ \E id \in DOMAIN ents : ExpirationFires(id)
    \/ \E id \in DOMAIN ents : IntervalFires(id)
    \/ Tick

Spec == Init /\ [][Next]_vars

\* ------------------------------------------------------------------ C1
\* The number of options among ttlInMs, refreshIntervalInMs, limit that c sets.
Options(c) ==
    (IF c.ttl > 0 THEN 1 ELSE 0) + (IF c.interval > 0 THEN 1 ELSE 0)
    + (IF c.limit > 0 THEN 1 ELSE 0)

\* Neither refreshAfterRead nor cacheWhen: a read does not refresh and every
\* value is cached.  The default configuration, and each of ttlInMs,
\* refreshIntervalInMs and limit on its own.
ConfigsMissHit ==
    {c \in Config : ~c.rar /\ c.cw = "none" /\ c.cooldown = 0 /\ ~c.reset
                    /\ Options(c) <= 1}

InitMissHit == InitWith(ConfigsMissHit)

NextMissHit ==
    \/ \E k \in Keys : Call(k)
    \/ \E p \in procs : PersistFetched(p)
    \/ \E p \in procs : UpdateCommit(p)
    \/ \E p \in procs : RefreshFetched(p)
    \/ \E v \in unresolved : Resolve(v)
    \/ \E id \in DOMAIN ents : ExpirationFires(id)
    \/ \E id \in DOMAIN ents : IntervalFires(id)
    \/ Tick

SpecMissHit == InitMissHit /\ [][NextMissHit]_vars

ConfigsRace == {c \in Config : c.limit = 1 /\ ~c.reset /\ c.cooldown = 0}

InitRace == InitWith(ConfigsRace)

SpecRace == InitRace /\ [][Next]_vars

Cached == {k \in Keys : cache[k] # None}

\* C2: with limit configured, the cache map never holds more than limit
\* entries.
C2_LimitBoundsMap == cfg.limit > 0 => Cardinality(Cached) <= cfg.limit

\* C3: a key whose Entry was removed by expiration or eviction is absent from
\* the map until a later persist inserts it again.
C3_RemovedStaysAbsent == \A k \in Keys : hist.removed[k] => cache[k] = None

\* ------------------------------------------------------------------ C4
\* limit and cacheWhen only: eviction is the only way an Entry is removed.
ConfigsRing ==
    {c \in Config : c.limit > 0 /\ c.ttl = 0 /\ ~c.reset /\ c.interval = 0
                    /\ ~c.rar /\ c.cooldown = 0}

InitRing == InitWith(ConfigsRing)

\* a call made when every earlier call has returned
CallSequential(k) == procs = {} /\ Call(k)

NextRing ==
    \/ \E k \in Keys : CallSequential(k)
    \/ \E p \in procs : PersistFetched(p)
    \/ \E p \in procs, b \in BOOLEAN : PersistCacheWhen(p, b)

SpecRing == InitRing /\ [][NextRing]_vars

NoDuplicates(s) == \A i, j \in 1..Len(s) : i # j => s[i] # s[j]

LastInserted(s, n) == {s[i] : i \in {j \in 1..Len(s) : j > Len(s) - n}}

ConfigsTtl ==
    {c \in Config : c.ttl > 0 /\ ~c.reset /\ c.interval = 0 /\ ~c.rar
                    /\ c.cooldown = 0 /\ c.limit = 0 /\ c.cw = "none"}

InitTtl == InitWith(ConfigsTtl)

NextTtl ==
    \/ \E k \in Keys : Call(k)
    \/ \E p \in procs : PersistFetched(p)
    \/ \E id \in DOMAIN ents : ExpirationFires(id)
    \/ Tick

SpecTtl == InitTtl /\ [][NextTtl]_vars

\* C5 (TTL expiry): with ttlInMs = T, a call for a key less than T ms after
\* the last write of the key's value hits, and a call T ms or more after
\* that write misses and invokes the underlying function.
C5_TtlExpiry ==
    (ev.op \in {"read", "miss"} /\ hist.written[ev.key] >= 0)
    => /\ ev.hit <=> now - hist.written[ev.key] < cfg.ttl
       /\ ~ev.hit => ev.fn

ConfigsReset ==
    {c \in Config : c.ttl > 0 /\ c.reset /\ c.interval = 0 /\ ~c.rar
                    /\ c.cooldown = 0 /\ c.limit = 0 /\ c.cw = "none"}

InitReset == InitWith(ConfigsReset)

SpecReset == InitReset /\ [][NextTtl]_vars

\* the key has been inserted and, so far, each read came less than T ms
\* after the read (or the insertion) before it, the present moment included
ReadInTime(k) == hist.touched[k] >= 0 /\ ~hist.gap[k]

ConfigsCooldown ==
    {c \in Config : c.cooldown > 0 /\ (c.rar \/ c.interval > 0)
                    /\ c.ttl = 0 /\ ~c.reset /\ c.limit = 0 /\ c.cw = "none"}

InitCooldown == InitWith(ConfigsCooldown)

NextRefresh ==
    \/ \E k \in Keys : Call(k)
    \/ \E p \in procs : PersistFetched(p)
    \/ \E p \in procs : UpdateCommit(p)
    \/ \E p \in procs : RefreshFetched(p)
    \/ \E v \in unresolved : Resolve(v)
    \/ \E id \in DOMAIN ents : IntervalFires(id)
    \/ Tick

SpecCooldown == InitCooldown /\ [][NextRefresh]_vars

\* C8 (cooldown): with refreshAfterRead and cooldownInMs = C, a read that
\* invokes the underlying function comes C ms or more after the previous
\* read of the key that invoked it.
C8_OneRefreshPerCooldown ==
    (cfg.rar /\ ev.op = "read" /\ ev.fn)
    => (ev.since < 0 \/ ev.since >= cfg.cooldown)

\* C9: with refreshIntervalInMs and cooldownInMs = C, a periodic tick that
\* fires less than C ms after the Entry's last modification does not invoke
\* the underlying function.
C9_TickHonoursCooldown ==
    (ev.op = "tick" /\ ev.age >= 0 /\ ev.age < cfg.cooldown) => ~ev.fn

\* ------------------------------------------------------------------ C10
\* refreshIntervalInMs alone.
ConfigsPeriodic ==
    {c \in Config : c.interval > 0 /\ ~c.rar /\ c.cooldown = 0 /\ c.ttl = 0
                    /\ ~c.reset /\ c.limit = 0 /\ c.cw = "none"}

InitPeriodic == InitWith(ConfigsPeriodic)

SpecPeriodic == InitPeriodic /\ [][NextRefresh]_vars

\* the invocations expected for a key cached since t0, at a moment
\* when every tick that is due has fired
Invocations(k) == 1 + (now - ents[cache[k]].created) \div cfg.interval

\* C10 (periodic refresh), as stated: with refreshIntervalInMs = I, a key
\* inserted at t0 and cached at t has had exactly 1 + floor((t - t0) / I)
\* invocations of the underlying function.
C10_AsStated ==
    \A k \in Cached : NoDue => calls[k] = Invocations(k)

\* C10 (periodic refresh), amended: the same for a key that no two
\* overlapping calls have missed on.
C10_OncePerInterval ==
    \A k \in Cached : (NoDue /\ ~hist.overlap[k]) => calls[k] = Invocations(k)

\* two intervals after the insertion, with reads in between, the function
\* has been invoked three times
C10_Witness ==
    \E k \in Cached :
        /\ ~hist.overlap[k] /\ NoDue
        /\ now - ents[cache[k]].created >= 2 * cfg.interval
        /\ calls[k] = 3
        /\ hist.wasRead[k]

\* ------------------------------------------------------------------ C11
\* refreshIntervalInMs with a way for an Entry to leave the cache.
\* The time to live is longer than the interval, so that an Entry ticks
\* during its life.
ConfigsLifetime ==
    {[c EXCEPT !.ttl = IF @ > 0 THEN c.interval + 1 ELSE @] :
        c \in {c \in Config :
                  c.interval > 0 /\ (c.ttl > 0 \/ c.limit > 0) /\ ~c.reset
                  /\ ~c.rar /\ c.cooldown = 0 /\ c.cw = "none"}}

InitLifetime == InitWith(ConfigsLifetime)

SpecLifetime == InitLifetime /\ [][NextMissHit]_vars

\* C11: once an Entry has been removed from the map by expiration or
\* eviction, and until its key is inserted again, no tick of that Entry's
\* refresh interval invokes the underlying function.
C11_NoTickAfterRemoval ==
    (ev.op = "tick" /\ ev.fn) => ev.val # hist.gone[ev.key]

\* ------------------------------------------------------------------ C12
\* C12: every armed expiration timeout and every armed refresh interval
\* belongs to an Entry that the cache map holds.
C12_TimersOwnedByCachedEntries ==
    \A id \in DOMAIN ents :
        (ents[id].exp.st = "armed" \/ ents[id].ref.st = "armed")
        => cache[ents[id].key] = id

\* -------------------------------------------------------------- C13, C14
\* refreshAfterRead alone.
ConfigsAfterRead ==
    {c \in Config : c.rar /\ c.cooldown = 0 /\ c.interval = 0 /\ c.ttl = 0
                    /\ ~c.reset /\ c.limit = 0 /\ c.cw = "none"}

InitAfterRead == InitWith(ConfigsAfterRead)

NextAfterRead ==
    \/ \E k \in Keys : Call(k)
    \/ \E p \in procs : PersistFetched(p)
    \/ \E p \in procs : UpdateCommit(p)
    \/ \E p \in procs : RefreshFetched(p)
    \/ \E v \in unresolved : Resolve(v)
    \/ Tick

SpecAfterRead == InitAfterRead /\ [][NextAfterRead]_vars

\* C13 (fire and forget): a read does not wait for a refresh in flight: the
\* value it returns is not the result, still outstanding, of an invocation
\* of the underlying function.
C13_ReadDoesNotWait ==
    (ev.op = "read" /\ ev.hit) => ev.val \notin unresolved

\* a call made when every earlier call has returned and every refresh it
\* started has completed
CallSettled(k) == procs = {} /\ unresolved = {} /\ Call(k)

NextSettled ==
    \/ \E k \in Keys : CallSettled(k)
    \/ \E p \in procs : PersistFetched(p)
    \/ \E p \in procs : UpdateCommit(p)
    \/ \E p \in procs : RefreshFetched(p)
    \/ \E v \in unresolved : Resolve(v)
    \/ Tick

SpecSettled == InitAfterRead /\ [][NextSettled]_vars

\* C14: with refreshAfterRead, cooldown 0 and no cacheWhen, when each call
\* is made after the refresh of the call before it has completed, the first
\* call for a key misses, the k-th call (k >= 2) returns the value of the
\* (k-1)-th invocation of the underlying function, and k invocations have
\* been made once the k-th call has returned.
C14_ReturnsPreviousInvocation ==
    (ev.op \in {"read", "miss"})
    => /\ calls[ev.key] = hist.asked[ev.key]
       /\ ev.op = "miss" <=> hist.asked[ev.key] = 1
       /\ ev.op = "read" => ev.val = <<ev.key, hist.asked[ev.key] - 1>>

\* the third call for a key returns the value of the second invocation
C14_Witness ==
    /\ ev.op = "read" /\ hist.asked[ev.key] = 3
    /\ ev.val = <<ev.key, 2>> /\ calls[ev.key] = 3

\* ------------------------------------------------------------------ C15
\* cacheWhen with the options that persist touches: ttlInMs and limit.
ConfigsCacheWhen ==
    {c \in Config : c.interval = 0 /\ ~c.rar /\ c.cooldown = 0 /\ ~c.reset}

InitCacheWhen == InitWith(ConfigsCacheWhen)

NextCacheWhen ==
    \/ \E k \in Keys : Call(k)
    \/ \E p \in procs : PersistFetched(p)
    \/ \E p \in procs, b \in BOOLEAN : PersistCacheWhen(p, b)
    \/ \E id \in DOMAIN ents : ExpirationFires(id)
    \/ Tick

SpecCacheWhen == InitCacheWhen /\ [][NextCacheWhen]_vars

\* C15: a persist that returns has put an Entry for its key into the map,
\* with the expiration timeout armed if ttlInMs is set, if and only if
\* cacheWhen is not configured or resolved true; when cacheWhen resolved
\* false the map, the Entries and their timers, the ring and the cursor are
\* unchanged.  A call for the key that follows an accepted persist hits the
\* accepted value and invokes nothing.
C15_CacheWhenGatesInsertion ==
    [][/\ (ev'.op = "persisted" /\ ev'.hit)
          => /\ cache'[ev'.key] = ev'.val
             /\ ents'[ev'.val].exp.st = "armed" <=> cfg.ttl > 0
       /\ (ev'.op = "persisted" /\ ~ev'.hit)
          => /\ cfg.cw # "none"
             /\ UNCHANGED <<cache, ents, ring, persistCounter>>
       /\ (ev.op = "persisted" /\ ev.hit
           /\ ev'.op \in {"read", "miss"} /\ ev'.key = ev.key)
          => (ev'.op = "read" /\ ev'.val = ev.val /\ calls' = calls)]_vars

\* ------------------------------------------------------------------ C16
\* cacheWhen, with and without refreshAfterRead.
ConfigsNever ==
    {c \in Config : c.cw = "any" /\ c.ttl = 0 /\ ~c.reset /\ c.interval = 0
                    /\ c.cooldown = 0 /\ c.limit = 0}

InitNever == InitWith(ConfigsNever)

\* the predicate resolves false every time
NextNever ==
    \/ \E k \in Keys : Call(k)
    \/ \E p \in procs : PersistFetched(p)
    \/ \E p \in procs : PersistCacheWhen(p, FALSE)
    \/ Tick

SpecNever == InitNever /\ [][NextNever]_vars

\* C16: with a cacheWhen that always resolves false the map stays empty,
\* every call misses and invokes the underlying function exactly once, and
\* the call returns the value of that invocation, which is not cached.
C16_NothingCached ==
    [][/\ Cached' = {}
       /\ (ev'.op \in {"read", "miss"})
          => /\ ev'.op = "miss"
             /\ calls'[ev'.key] = calls[ev'.key] + 1
             /\ \E p \in procs' \ procs :
                   p.key = ev'.key /\ p.val = <<ev'.key, calls'[ev'.key]>>
       /\ (ev'.op = "persisted")
          => /\ ~ev'.hit
             /\ \E p \in procs \ procs' : p.val = ev'.val
             /\ calls' = calls]_vars

\* the third call for a key has returned the value of the third invocation
C16_Witness ==
    /\ ev.op = "persisted" /\ ~ev.hit
    /\ ev.val = <<ev.key, 3>> /\ calls[ev.key] = 3
    /\ Cached = {} /\ procs = {}

\* ------------------------------------------------------------------ C17
\* cacheWhen with refreshAfterRead.
ConfigsRefreshWhen ==
    {c \in Config : c.cw = "any" /\ c.rar /\ c.interval = 0 /\ c.cooldown = 0
                    /\ c.ttl = 0 /\ ~c.reset /\ c.limit = 0}

InitRefreshWhen == InitWith(ConfigsRefreshWhen)

NextRefreshWhen ==
    \/ \E k \in Keys : Call(k)
    \/ \E p \in procs : PersistFetched(p)
    \/ \E p \in procs, b \in BOOLEAN : PersistCacheWhen(p, b)
    \/ \E p \in procs, b \in BOOLEAN : UpdateCacheWhen(p, b)
    \/ \E p \in procs : UpdateCommit(p)
    \/ \E p \in procs : RefreshFetched(p)
    \/ \E p \in procs, b \in BOOLEAN : RefreshCacheWhen(p, b)
    \/ \E v \in unresolved : Resolve(v)
    \/ Tick

SpecRefreshWhen == InitRefreshWhen /\ [][NextRefreshWhen]_vars

\* C17: when cacheWhen resolves false for the value a refresh has computed,
\* the underlying function has been invoked for it, and the refresh leaves
\* the map and every Entry (value, modified, timers) as they were; a read of
\* the key that follows does not return the value turned down.
C17_RejectedRefreshIsNoOp ==
    [][/\ (ev'.op = "updateCw" /\ ~ev'.hit)
          => /\ \E p \in procs \ procs' :
                   /\ p.val = ev'.val /\ p.kind \in {"update", "refresh"}
                   /\ p.val[2] <= calls[p.key]
             /\ UNCHANGED <<cache, calls>>
             /\ \A id \in DOMAIN ents' : ents'[id] = ents[id]
             /\ \A k \in Cached : cache[k] \in DOMAIN ents'
       /\ (ev.op = "updateCw" /\ ~ev.hit
           /\ ev'.op = "read" /\ ev'.key = ev.key)
          => ev'.val # ev.val]_vars

\* a refresh was turned down and the Entry still holds the value it was
\* inserted with, although the function has been invoked again
C17_Witness ==
    /\ ev.op = "updateCw" /\ ~ev.hit
    /\ cache[ev.key] = <<ev.key, 1>>
    /\ ents[cache[ev.key]].val = <<ev.key, 1>>
    /\ ents[cache[ev.key]].modified = ents[cache[ev.key]].created
    /\ calls[ev.key] >= 2

\* ------------------------------------------------------------------ C18
\* limit and cacheWhen, calls that overlap.
ConfigsPersist ==
    {c \in Config : c.ttl = 0 /\ ~c.reset /\ c.interval = 0 /\ ~c.rar
                    /\ c.cooldown = 0}

InitPersist == InitWith(ConfigsPersist)

NextPersist ==
    \/ \E k \in Keys : Call(k)
    \/ \E p \in procs : PersistFetched(p)
    \/ \E p \in procs, b \in BOOLEAN : PersistCacheWhen(p, b)

SpecPersist == InitPersist /\ [][NextPersist]_vars

\* C18: every call that misses makes an invocation of its own, and its
\* persist returns the value of that invocation, whether cacheWhen accepts
\* it or not, whether the insertion evicts or not, and whatever other
\* persists are under way.
C18_PersistReturnsOwnValue ==
    [][/\ (ev'.op = "miss")
          => /\ calls'[ev'.key] = calls[ev'.key] + 1
             /\ \E p \in procs' \ procs :
                   /\ p.kind = "persist" /\ p.key = ev'.key
                   /\ p.val = <<ev'.key, calls'[ev'.key]>>
       /\ (ev'.op = "persisted")
          => \E p \in procs \ procs' :
                /\ p.kind = "persist" /\ p.key = ev'.key
                /\ ev'.val = p.val]_vars

\* a persist that cacheWhen turned down returns its own value while the map
\* holds the value of another persist for the same key
C18_Witness ==
    /\ ev.op = "persisted" /\ ~ev.hit
    /\ cache[ev.key] # None
    /\ ents[cache[ev.key]].val # ev.val

\* ------------------------------------------------------------------ C19
\* ttlInMs, limit and cacheWhen, calls that overlap, an underlying function
\* and a predicate that may fail.
ConfigsFail ==
    {c \in Config : ~c.reset /\ c.interval = 0 /\ ~c.rar /\ c.cooldown = 0}

InitFail == InitWith(ConfigsFail)

NextFail ==
    \/ \E k \in Keys : Call(k)
    \/ \E p \in procs : PersistFetched(p)
    \/ \E p \in procs, b \in BOOLEAN : PersistCacheWhen(p, b)
    \/ \E p \in procs : PersistFetchFails(p)
    \/ \E p \in procs : PersistCacheWhenFails(p)

SpecFail == InitFail /\ [][NextFail]_vars

\* C19: a persist that fails at fetchFn or at cacheWhen ends with the failure
\* and none of its steps, from the call that missed to the failure, changes
\* the map, the Entries and their timers, the ring or the cursor.
C19_FailedPersistLeavesCache ==
    [][/\ (ev'.op \in {"miss", "fetched", "failed"})
          => UNCHANGED <<cache, ents, ring, persistCounter>>
       /\ (ev'.op = "failed")
          => /\ \E p \in procs \ procs' :
                   /\ p.kind = "persist" /\ p.key = ev'.key
                   /\ p.pc = IF ev'.fn THEN "fetch" ELSE "cw"
             /\ \A id \in DOMAIN ents' :
                   ents'[id].val # ev'.val]_vars

\* cacheWhen failed for a key while ttlInMs and limit are set and the ring
\* slot under the cursor is taken
C19_Witness ==
    /\ ev.op = "failed" /\ ~ev.fn
    /\ cfg.ttl > 0 /\ cfg.limit > 0
    /\ ring[persistCounter] # NoKey
    /\ cache[ev.key] = None

\* ------------------------------------------------------------------ C20
\* refreshAfterRead or refreshIntervalInMs and nothing else, an underlying
\* function that may fail when a refresh invokes it.
ConfigsRefreshFails ==
    {c \in Config : (c.rar \/ c.interval > 0) /\ c.ttl = 0 /\ ~c.reset
                    /\ c.limit = 0 /\ c.cooldown = 0 /\ c.cw = "none"}

InitRefreshFails == InitWith(ConfigsRefreshFails)

NextRefreshFails ==
    \/ \E k \in Keys : Call(k)
    \/ \E p \in procs : PersistFetched(p)
    \/ \E p \in procs : UpdateCommit(p)
    \/ \E p \in procs : RefreshFetched(p)
    \/ \E p \in procs : UpdateThrows(p)
    \/ \E p \in procs : RefreshFetchFails(p)
    \/ \E v \in unresolved : Resolve(v)
    \/ \E v \in unresolved : Rejects(v)
    \/ \E id \in DOMAIN ents : IntervalFires(id)
    \/ Tick

SpecRefreshFails == InitRefreshFails /\ [][NextRefreshFails]_vars

\* C20: when the invocation made by a refresh fails, the step that fails
\* changes no Entry, no Entry ever holds the result of a failed invocation
\* in place of the value it had, and no read is answered with one.
C20_FailedRefreshKeepsEntry ==
    [][/\ (ev'.op \in {"refreshFailed", "rejected"})
          => /\ ev'.val \in failed'
             /\ UNCHANGED cache
             /\ \A id \in DOMAIN ents' : ents'[id] = ents[id]
       /\ \A id \in DOMAIN ents' : ents'[id].val \notin failed'
       /\ (ev'.op = "read" /\ ev'.hit) => ev'.val \notin failed']_vars

\* a refresh failed and the Entry of its key is still read afterwards
C20_Witness ==
    /\ ev.op = "read" /\ ev.hit
    /\ \E v \in failed : v[1] = ev.key

\* ------------------------------------------------------------------ C21
\* limit with or without ttlInMs and cacheWhen, calls one after the other.
ConfigsFifo ==
    {c \in Config : c.limit > 0 /\ ~c.reset /\ c.interval = 0 /\ ~c.rar
                    /\ c.cooldown = 0}

InitFifo == InitWith(ConfigsFifo)

NextFifo ==
    \/ \E k \in Keys : CallSequential(k)
    \/ \E p \in procs : PersistFetched(p)
    \/ \E p \in procs, b \in BOOLEAN : PersistCacheWhen(p, b)
    \/ \E id \in DOMAIN ents : ExpirationFires(id)
    \/ Tick

SpecFifo == InitFifo /\ [][NextFifo]_vars

\* the place of the latest insertion of key k in the sequence s of insertions
RECURSIVE Rank(_, _)
Rank(s, k) ==
    IF s = <<>> THEN 0
    ELSE IF s[Len(s)] = k THEN Len(s)
    ELSE Rank(SubSeq(s, 1, Len(s) - 1), k)

\* C21: an Entry that an insertion under limit removes is the one inserted
\* earliest among the Entries the map holds at that moment, the inserted
\* one included.
C21_EvictsOldest ==
    [][(Len(hist.insOrder') = Len(hist.insOrder) + 1)
       => LET s == hist.insOrder'
              held == Cached \cup {s[Len(s)]}
          IN \A r \in held \ Cached' :
                \A k \in held : Rank(s, r) <= Rank(s, k)]_vars

\* ------------------------------------------------------------------ C22
\* limit with every option a read acts on: ttlInMs, resetTTLOnRead and
\* refreshAfterRead; persists do not overlap.
ConfigsReads ==
    {c \in Config : c.limit > 0 /\ (c.reset => c.ttl > 0) /\ c.interval = 0
                    /\ c.cooldown = 0 /\ c.cw = "none"}

InitReads == InitWith(ConfigsReads)

\* a call made when every earlier persist has returned; refreshes that reads
\* have started may still be under way
CallAfterPersist(k) == (\A p \in procs : p.kind # "persist") /\ Call(k)

NextReads ==
    \/ \E k \in Keys : CallAfterPersist(k)
    \/ \E p \in procs : PersistFetched(p)
    \/ \E p \in procs : UpdateCommit(p)
    \/ \E p \in procs : RefreshFetched(p)
    \/ \E v \in unresolved : Resolve(v)
    \/ \E id \in DOMAIN ents : ExpirationFires(id)
    \/ Tick

SpecReads == InitReads /\ [][NextReads]_vars

\* C22: a read leaves the ring and the cursor as they are, and what an
\* insertion removes besides the Entry it replaces is the Entry of the key
\* the ring held under the cursor before it, however often keys were read.
C22_ReadsKeepEvictionOrder ==
    [][/\ (ev'.op = "read") => UNCHANGED <<ring, persistCounter>>
       /\ (ev'.op = "persisted" /\ ev'.hit)
          => /\ Cached \ Cached' \subseteq {ring[persistCounter]}
             /\ ring' = [ring EXCEPT ![persistCounter] = ev'.key]
             /\ persistCounter' = (persistCounter + 1) % cfg.limit]_vars

\* the key read is the one the next insertion evicts
C22_Witness ==
    /\ ev.op = "read" /\ ev.hit
    /\ ring[persistCounter] = ev.key
    /\ Cardinality(Cached) = 2

\* ------------------------------------------------------------------ C23
\* every combination of ttlInMs, resetTTLOnRead and limit, calls one after
\* the other.
ConfigsTransparent ==
    {c \in Config : (c.reset => c.ttl > 0) /\ c.interval = 0 /\ ~c.rar
                    /\ c.cooldown = 0 /\ c.cw = "none"}

InitTransparent == InitWith(ConfigsTransparent)

NextTransparent ==
    \/ \E k \in Keys : CallSequential(k)
    \/ \E p \in procs : PersistFetched(p)
    \/ \E id \in DOMAIN ents : ExpirationFires(id)
    \/ Tick

SpecTransparent == InitTransparent /\ [][NextTransparent]_vars

\* the arguments the underlying function was invoked with to produce v
ArgsOf(v) == v[1]

\* C23: what a call returns, from the cache on a hit and from persist on a
\* miss, is a result of the underlying function for the arguments of that
\* call, and every Entry in the map holds a result for the arguments of its
\* key.
C23_ReturnsOwnResult ==
    /\ (ev.op = "read" /\ ev.hit) => ArgsOf(ev.val) = ev.key
    /\ (ev.op = "persisted") => ArgsOf(ev.val) = ev.key
    /\ \A k \in Cached : ArgsOf(ents[cache[k]].val) = k /\ ents[cache[k]].key = k

\* a hit on a key that was cached again after its Entry had been removed,
\* while another key is cached too
C23_Witness ==
    /\ ev.op = "read" /\ ev.hit
    /\ ev.val[2] > 1
    /\ Cardinality(Cached) = 2

\* ------------------------------------------------------------------ C24
\* no option set, calls one after the other.
ConfigsDefault ==
    {c \in Config : c.ttl = 0 /\ ~c.reset /\ c.interval = 0 /\ ~c.rar
                    /\ c.cooldown = 0 /\ c.limit = 0 /\ c.cw = "none"}

InitDefault == InitWith(ConfigsDefault)

NextDefault ==
    \/ \E k \in Keys : CallSequential(k)
    \/ \E p \in procs : PersistFetched(p)
    \/ Tick

SpecDefault == InitDefault /\ [][NextDefault]_vars

\* C24: with no option set the underlying function has been invoked once
\* for every key that was called and never a second time, whatever time has
\* passed: an Entry has no timer and stays in the map with its value.
C24_OncePerKey ==
    [][\A k \in Keys :
          /\ calls'[k] <= 1
          /\ (ev'.op \in {"read", "miss"} /\ ev'.key = k) => calls'[k] = 1
          /\ (ev'.op = "read" /\ ev'.key = k) => ev'.val = <<k, 1>>
          /\ cache[k] # None => cache'[k] = cache[k] /\ ents'[cache[k]] = ents[cache[k]]
          /\ cache'[k] # None
             => /\ ents'[cache'[k]].exp.st = "none"
                /\ ents'[cache'[k]].ref.st = "none"]_vars

\* every key is cached and is read when all the time has passed
C24_Witness ==
    /\ ev.op = "read" /\ ev.hit
    /\ now = MaxTime
    /\ \A k \in Keys : calls[k] = 1 /\ cache[k] # None

\* ------------------------------------------------------------------ C25
\* the options a read acts on: ttlInMs with resetTTLOnRead, refreshAfterRead
\* with cooldownInMs; persists do not overlap.
ConfigsIdempotent ==
    {c \in Config : (c.reset => c.ttl > 0) /\ (c.cooldown > 0 => c.rar)
                    /\ c.interval = 0 /\ c.limit = 0 /\ c.cw = "none"}

InitIdempotent == InitWith(ConfigsIdempotent)

SpecIdempotent == InitIdempotent /\ [][NextReads]_vars

\* a hit returns the value the Entry holds and leaves that value and the map
\* as they are, so that hits with no write between them return the same value
ReadKeepsValue ==
    (ev'.op = "read" /\ ev'.hit)
    => /\ cache' = cache
       /\ ev'.val = ents[cache[ev'.key]].val
       /\ ents'[cache[ev'.key]].val = ents[cache[ev'.key]].val

\* C25 as stated: a hit returns the value the Entry holds, leaves it as it
\* is and never invokes the underlying function.
C25_AsStated ==
    [][/\ ReadKeepsValue
       /\ (ev'.op = "read" /\ ev'.hit) => calls' = calls]_vars

\* C25: a hit returns the value the Entry holds and leaves it as it is; it
\* does not invoke the underlying function unless refreshAfterRead is set,
\* and then at most once and for the key that was read.
C25_IdempotentHit ==
    [][/\ ReadKeepsValue
       /\ (ev'.op = "read" /\ ev'.hit /\ ~cfg.rar) => calls' = calls
       /\ (ev'.op = "read" /\ ev'.hit /\ cfg.rar)
          => \A k \in Keys :
                /\ calls'[k] >= calls[k]
                /\ calls'[k] <= calls[k] + (IF k = ev'.key THEN 1 ELSE 0)]_vars

\* without refreshAfterRead an Entry is read that has outlived its time to
\* live, which takes an earlier read of it
C25_Witness ==
    /\ ev.op = "read" /\ ev.hit /\ ~cfg.rar
    /\ cfg.reset
    /\ now > ents[cache[ev.key]].created + cfg.ttl

\* ------------------------------------------------------------------ C26
\* ttlInMs with resetTTLOnRead, refreshAfterRead with cooldownInMs or with
\* cacheWhen, and refreshIntervalInMs, each alone or with limit 1; persists
\* do not overlap.
ConfigsMembership ==
    {c \in Config : /\ c.reset => c.ttl > 0
                    /\ c.cooldown > 0 => c.rar
                    /\ c.ttl > 0 => ~c.rar /\ c.interval = 0
                    /\ c.rar => c.interval = 0
                    /\ c.limit < 2
                    /\ c.cw = "any" => c.rar /\ c.cooldown = 0 /\ c.limit = 0}

InitMembership == InitWith(ConfigsMembership)

NextMembership ==
    \/ \E k \in Keys : CallAfterPersist(k)
    \/ \E p \in procs : PersistFetched(p)
    \/ \E p \in procs, b \in BOOLEAN : PersistCacheWhen(p, b)
    \/ \E p \in procs, b \in BOOLEAN : UpdateCacheWhen(p, b)
    \/ \E p \in procs : UpdateCommit(p)
    \/ \E p \in procs : RefreshFetched(p)
    \/ \E p \in procs, b \in BOOLEAN : RefreshCacheWhen(p, b)
    \/ \E v \in unresolved : Resolve(v)
    \/ \E id \in DOMAIN ents : ExpirationFires(id)
    \/ \E id \in DOMAIN ents : IntervalFires(id)
    \/ Tick

SpecMembership == InitMembership /\ [][NextMembership]_vars

\* C26: the call of retrieve, on a hit and on a miss, leaves the map as it
\* is: no key is added, none is removed and none gets another Entry.
C26_RetrieveKeepsMembership ==
    [][(ev'.op \in {"read", "miss"}) => (cache' = cache /\ Cached' = Cached)]_vars

\* a hit that has started a refresh while the cache is filled to its limit
C26_Witness ==
    /\ ev.op = "read" /\ ev.hit /\ ev.fn
    /\ cfg.limit = 1
    /\ Cached = {ev.key}

\* ------------------------------------------------------------------ C27
\* cacheMe(fn, inMemory(), ...eager) with no option set; the wrapped function
\* may be called as soon as cacheMe has returned.
InitEager ==
    \E eager \in (SUBSET Keys) \ {{}} :
        /\ cfg \in ConfigsDefault
        /\ now = 0
        /\ LET W == cacheMe([cache |-> [k \in Keys |-> None], ents |-> <<>>,
                             ring |-> <<>>, ctr |-> 0,
                             calls |-> [k \in Keys |-> 0], procs |-> {},
                             unresolved |-> {}, failed |-> {},
                             redis |-> NoRedis], eager)
           IN /\ cache = W.cache /\ ents = W.ents /\ ring = W.ring
              /\ persistCounter = W.ctr /\ calls = W.calls /\ procs = W.procs
              /\ unresolved = W.unresolved /\ failed = W.failed
              /\ redis = W.redis
        /\ ev = Event("init", NoKey, FALSE, None, FALSE, 0 - 1, 0 - 1)
        /\ hist = [removed |-> [k \in Keys |-> FALSE],
                   insOrder |-> <<>>,
                   written |-> [k \in Keys |-> 0 - 1],
                   touched |-> [k \in Keys |-> 0 - 1],
                   gap |-> [k \in Keys |-> FALSE],
                   overlap |-> [k \in Keys |-> FALSE],
                   lastTrig |-> [k \in Keys |-> 0 - 1],
                   wasRead |-> [k \in Keys |-> FALSE],
                   gone |-> [k \in Keys |-> None],
                   asked |-> [k \in Keys |-> 0],
                   eager |-> eager]

NextEager ==
    \/ \E k \in Keys : Call(k)
    \/ \E p \in procs : EagerPersist(p)
    \/ \E p \in procs : PersistFetched(p)
    \/ Tick

SpecEager == InitEager /\ [][NextEager]_vars

\* the warm-up of key k has not written its Entry yet
Warming(k) == \E p \in procs : p.kind = "persist" /\ p.key = k

\* nothing is invoked before cacheMe returns, and the warm-up invokes the
\* underlying function once for every eager argument list
WarmUpInvokesOnce ==
    /\ (ev.op = "init") => \A k \in Keys : calls[k] = 0
    /\ \A k \in hist.eager :
          ~hist.overlap[k]
          => calls[k] = (IF \E p \in procs : p.key = k /\ p.pc = "retrieved"
                         THEN 0 ELSE 1)

\* C27 as stated: nothing is invoked before cacheMe returns, the function
\* is invoked once for every eager argument list, and a call with one of
\* them made after cacheMe has returned hits and invokes nothing.
C27_AsStated ==
    /\ WarmUpInvokesOnce
    /\ (ev.op \in {"read", "miss"} /\ ev.key \in hist.eager)
       => (ev.hit /\ calls[ev.key] = 1)

\* C27: nothing is invoked before cacheMe returns, the warm-up invokes the
\* function once for every eager argument list, and a call with one of them
\* made when the warm-up has written its Entry hits and invokes nothing;
\* with no earlier call in the way the function was then invoked once.
C27_WarmUp ==
    /\ []WarmUpInvokesOnce
    /\ [][(ev'.op \in {"read", "miss"} /\ ev'.key \in hist.eager
           /\ ~Warming(ev'.key))
          => /\ ev'.hit /\ calls' = calls
             /\ ~hist.overlap[ev'.key]
                => calls[ev'.key] = 1 /\ ev'.val = <<ev'.key, 1>>]_vars

\* every key was warmed up and one of them is read afterwards
C27_Witness ==
    /\ hist.eager = Keys
    /\ ev.op = "read" /\ ev.hit
    /\ \A k \in Keys : calls[k] = 1 /\ cache[k] # None

\* ------------------------------------------------------------------ C28
\* resetTTLOnRead without ttlInMs, with or without limit.
ConfigsResetOnly ==
    {c \in Config : c.reset /\ c.ttl = 0 /\ c.interval = 0 /\ ~c.rar
                    /\ c.cooldown = 0 /\ c.cw = "none"}

InitResetOnly == InitWith(ConfigsResetOnly)

NextResetOnly ==
    \/ \E k \in Keys : Call(k)
    \/ \E p \in procs : PersistFetched(p)
    \/ Tick

SpecResetOnly == InitResetOnly /\ [][NextResetOnly]_vars

\* C28: with resetTTLOnRead and no ttlInMs a read changes neither the map
\* nor an Entry and its timers nor the ring and the cursor, no Entry has an
\* expiration timeout, and an Entry leaves the map only by an insertion
\* under limit, never by the passing of time.
C28_ResetWithoutTtlIsIgnored ==
    [][/\ (ev'.op = "read") => UNCHANGED <<cache, ents, ring, persistCounter>>
       /\ \A id \in DOMAIN ents' : ents'[id].exp.st = "none"
       /\ (Cached \ Cached' # {}) => (ev'.op = "persisted" /\ cfg.limit > 0)
       /\ (ev'.op = "time") => UNCHANGED <<cache, ents, ring, persistCounter>>]_vars

\* an Entry is read when all the time has passed
C28_Witness ==
    /\ ev.op = "read" /\ ev.hit
    /\ cfg.reset /\ cfg.ttl = 0
    /\ now = MaxTime
    /\ ents[cache[ev.key]].created = 0

\* ------------------------------------------------------------------ C29
\* The Redis strategy (InRedisCache): ttlInMs and cacheWhen, within the time
\* to live of what is written.
ConfigsRedis ==
    [impl : {"redis"}, ttl : TtlValues, reset : {FALSE}, interval : {0},
     rar : {FALSE}, cooldown : {0}, limit : {0}, cw : CacheWhenValues]

InitRedis == InitWith(ConfigsRedis)

\* What the underlying function may return: a value JSON writes and reads
\* back as it is (a string, a number, a boolean, a plain object), undefined,
\* or a value JSON writes as something else (a Date becomes a string).
ResultKinds == {"plain", "undefined", "date"}

Undefined == <<"undefined">>

\* a string: the JSON text of w, or the empty string
Text(w) == <<"text", w>>
EmptyText == <<"text">>

\* JSON.stringify(value)
stringify(v) ==
    IF v[3] = "undefined" THEN Undefined
    ELSE IF v[3] = "date" THEN Text(<<v[1], v[2], "string">>)
    ELSE Text(v)

\* JSON.parse(entry)
parse(s) == s[2]

\* ioredis writes an argument that is undefined as the empty string
toArg(x) == IF x = Undefined THEN EmptyText ELSE x

\* `if (entry)` in retrieve: neither null nor the empty string
Truthy(s) == s # None /\ s # EmptyText

\* the reply to GET key: the string set last, null when none is set or its
\* PX time has run out
redisGet(R, k) ==
    LET e == R.store[k]
    IN IF e.str # None /\ (e.px < 0 \/ now < e.px) THEN e.str ELSE None

\* the value of the SET sent last for key k, executed or not
LastSet(R, k) ==
    LET I == {i \in 1..Len(R.queue) :
                 R.queue[i].cmd = "set" /\ R.queue[i].key = k}
    IN IF I = {} THEN R.store[k].of
       ELSE R.queue[CHOOSE i \in I : \A j \in I : j <= i].of

\* persist from "Insert value into cache." on: this.redis.set(...) is sent
\* and not awaited
redisSet(W, p) ==
    [W EXCEPT !.redis.queue =
        Append(@, [cmd |-> "set", key |-> p.key,
                   str |-> toArg(stringify(p.val)),
                   px |-> IF cfg.ttl > 0 THEN cfg.ttl ELSE 0 - 1,
                   of |-> p.val])]

\* cacheMe's func with the Redis strategy: retrieve up to
\* `await this.redis.get(key)`.  The suspended retrieve remembers which
\* value had been accepted last for its key (observation only).
RedisCall(k) ==
    /\ cfg.impl = "redis"
    /\ ~\E p \in procs : p.kind = "redisRetrieve" /\ p.key = k
    /\ Install([World EXCEPT
          !.procs = @ \cup {[kind |-> "redisRetrieve", key |-> k,
                             ent |-> None, val |-> LastSet(redis, k),
                             pc |-> "get"]},
          !.redis.queue = Append(@, [cmd |-> "get", key |-> k, str |-> None,
                                     px |-> 0 - 1, of |-> None])])
    /\ ev' = Event("call", k, FALSE, None, FALSE, 0 - 1, 0 - 1)
    /\ hist' = hist
    /\ UNCHANGED <<cfg, now>>

\* Redis executes the SET at the head of the connection
RedisExecutesSet ==
    /\ redis.queue # <<>> /\ Head(redis.queue).cmd = "set"
    /\ LET c == Head(redis.queue)
       IN /\ Install([World EXCEPT
                !.redis.queue = Tail(@),
                !.redis.store[c.key] =
                    [str |-> c.str,
                     px |-> IF c.px < 0 THEN c.px ELSE now + c.px,
                     of |-> c.of]])
          /\ ev' = Event("set", c.key, FALSE, c.of, FALSE, 0 - 1, 0 - 1)
    /\ hist' = hist
    /\ UNCHANGED <<cfg, now>>

\* Redis executes the GET at the head of the connection and retrieve
\* resumes: on a hit func returns the parsed entry, on a miss it calls
\* persist, which runs up to its `await fetchFn()`
RedisExecutesGet ==
    /\ redis.queue # <<>> /\ Head(redis.queue).cmd = "get"
    /\ LET k == Head(redis.queue).key
           p == CHOOSE q \in procs : q.kind = "redisRetrieve" /\ q.key = k
           entry == redisGet(redis, k)
           R == [World EXCEPT !.redis.queue = Tail(@), !.procs = @ \ {p}]
       IN IF Truthy(entry)
          THEN /\ Install(R)
               /\ ev' = Event("read", k, TRUE, parse(entry), FALSE, 0 - 1, 0 - 1)
          ELSE \E kind \in ResultKinds :
                  LET v == <<k, calls[k] + 1, kind>>
                  IN /\ Install([R EXCEPT
                           !.calls[k] = @ + 1,
                           !.procs = @ \cup {[kind |-> "redisPersist",
                                              key |-> k, ent |-> None,
                                              val |-> v, pc |-> "fetch"]}])
                     /\ ev' = Event("miss", k, FALSE, v, TRUE, 0 - 1, 0 - 1)
    /\ hist' = hist
    /\ UNCHANGED <<cfg, now>>

\* InRedisCache.persist: the value is sent to Redis and returned
RedisAccept(p) ==
    /\ Install(redisSet(Without(World, p), p))
    /\ ev' = Event("persisted", p.key, TRUE, p.val, FALSE, 0 - 1, 0 - 1)

\* InRedisCache.persist: cacheWhen said no, the value is returned
RedisReject(p) ==
    /\ Install(Without(World, p))
    /\ ev' = Event("persisted", p.key, FALSE, p.val, FALSE, 0 - 1, 0 - 1)

\* InRedisCache.persist resumes after `await fetchFn()`
RedisPersistFetched(p) ==
    /\ p.kind = "redisPersist" /\ p.pc = "fetch"
    /\ IF cfg.cw = "none"
       THEN RedisAccept(p)
       ELSE /\ Install(Moved(World, p, "cw"))
            /\ ev' = Event("fetched", p.key, FALSE, p.val, FALSE, 0 - 1, 0 - 1)
    /\ hist' = hist
    /\ UNCHANGED <<cfg, now>>

\* InRedisCache.persist resumes after `await this.config.cacheWhen(value)`
RedisPersistCacheWhen(p, executeInsert) ==
    /\ p.kind = "redisPersist" /\ p.pc = "cw"
    /\ IF executeInsert THEN RedisAccept(p) ELSE RedisReject(p)
    /\ hist' = hist
    /\ UNCHANGED <<cfg, now>>

NextRedis ==
    \/ \E k \in Keys : RedisCall(k)
    \/ RedisExecutesSet
    \/ RedisExecutesGet
    \/ \E p \in procs : RedisPersistFetched(p)
    \/ \E p \in procs, b \in BOOLEAN : RedisPersistCacheWhen(p, b)

SpecRedis == InitRedis /\ [][NextRedis]_vars

\* C29: persist sends one SET with the value when cacheWhen is absent or
\* resolves true and nothing when it resolves false, and returns the value
\* it fetched either way; a call made when no value has been accepted for
\* its key invokes the underlying function, and a call made when one had
\* been accepted returns that value without an invocation, unless its time
\* to live has run out.
C29_RedisCachesAccepted ==
    [][/\ (ev'.op = "persisted")
          => \E p \in procs \ procs' :
                /\ p.kind = "redisPersist" /\ p.key = ev'.key
                /\ ev'.val = p.val
                /\ redis'.store = redis.store
                /\ IF ev'.hit
                   THEN /\ Len(redis'.queue) = Len(redis.queue) + 1
                        /\ redis'.queue[Len(redis'.queue)].cmd = "set"
                        /\ redis'.queue[Len(redis'.queue)].of = p.val
                   ELSE cfg.cw # "none" /\ redis'.queue = redis.queue
       /\ (ev'.op \in {"read", "miss"})
          => \E p \in procs \ procs' :
                /\ p.kind = "redisRetrieve" /\ p.key = ev'.key
                /\ p.val = None => (ev'.op = "miss" /\ calls'[p.key] = calls[p.key] + 1)
                /\ (p.val # None /\ redisGet(redis, p.key) # None)
                   => (ev'.op = "read" /\ ev'.val = p.val /\ calls' = calls)]_vars


(***************************************************************************)
(* The cooldown boundary of a refresh attempt.                             *)
(***************************************************************************)
ConfigsBoundary ==
    {c \in Config : (c.rar # (c.interval > 0))
                    /\ c.ttl = 0 /\ ~c.reset /\ c.limit = 0 /\ c.cw = "none"}

InitBoundary == InitWith(ConfigsBoundary)

SpecBoundary == InitBoundary /\ [][NextRefresh]_vars

\* The cooldown a refresh attempt is made with: a read passes
\* config.cooldownInMs; a periodic tick passes nothing to updateValueInCache
\* (default 0) in the first generation and reads config.cooldownInMs in
\* Entry.refresh in the second.
AttemptCooldown ==
    IF ev.op = "tick" /\ Closure THEN 0 ELSE cfg.cooldown

RefreshAttempt ==
    \/ ev.op = "read" /\ cfg.rar
    \/ ev.op = "tick" /\ ev.hit

ConfigsNoSingleFlight ==
    {c \in Config : c.cw = "none" /\ ~c.reset /\ c.cooldown = 0}

InitNoSingleFlight == InitWith(ConfigsNoSingleFlight)

SpecNoSingleFlight == InitNoSingleFlight /\ [][NextMissHit]_vars

\* the calls for key k that have missed and not yet returned
Computing(P, k) == {p \in P : p.kind = "persist" /\ p.key = k}

\* C31 (no single-flight): a call for a key made while earlier calls for it
\* are still computing and none of them has written its Entry misses like
\* them and invokes the underlying function once more, so n such calls
\* invoke it n times; when the last of them has returned, the map holds one
\* Entry for the key.
C31_NoSingleFlight ==
    [][/\ \A k \in Keys :
            (ev'.op \in {"read", "miss"} /\ ev'.key = k /\ cache[k] = None)
            => /\ ev'.op = "miss"
               /\ calls'[k] = calls[k] + 1
               /\ Cardinality(Computing(procs', k))
                    = Cardinality(Computing(procs, k)) + 1
       /\ (ev'.op = "persisted" /\ hist'.overlap[ev'.key]
           /\ Computing(procs', ev'.key) = {})
          => cache'[ev'.key] # None]_vars


\* ------------------------------------------------------------------ C32
\* limit with and without a time to live, calls overlapping freely.
ConfigsRingInvariant == {c \in ConfigsFifo : c.cw = "none"}

InitRingInvariant == InitWith(ConfigsRingInvariant)

NextRingInvariant ==
    \/ \E k \in Keys : Call(k)
    \/ \E p \in procs : PersistFetched(p)
    \/ \E id \in DOMAIN ents : ExpirationFires(id)
    \/ Tick

SpecRingInvariant == InitRingInvariant /\ [][NextRingInvariant]_vars

Min(a, b) == IF a < b THEN a ELSE b

\* The key slot s holds after the accepted insertions s: the i-th insertion
\* sits in slot (i - 1) mod L, and only the last min(n, L) are still there.
SlotAfter(s, slot, L) ==
    LET n == Len(s)
        last == {i \in 1..n : i > n - Min(n, L) /\ (i - 1) % L = slot}
    IN IF last = {} THEN NoKey ELSE s[CHOOSE i \in last : TRUE]

RingInvariant ==
    LET L == cfg.limit
        n == Len(hist.insOrder)
    IN /\ persistCounter \in 0..(L - 1)
       /\ persistCounter = n % L
       /\ DOMAIN ring = 0..(L - 1)
       /\ \A slot \in 0..(L - 1) : ring[slot] = SlotAfter(hist.insOrder, slot, L)

\* An accepted insertion removes from the map the key that was in the slot
\* under the cursor, and no other key.
EvictsSlotUnderCursor ==
    Len(hist.insOrder') = Len(hist.insOrder) + 1
    => LET victim == ring[persistCounter]
       IN /\ victim # NoKey => cache'[victim] = None
          /\ \A k \in Keys \ {victim, ev'.key} :
                (cache'[k] = None) <=> (cache[k] = None)

\* C32 (eviction ring): with limit = L, in every reachable state the cursor
\* is in 0..L-1 and equals the number of accepted insertions mod L, slot
\* (i-1) mod L holds the key of the i-th insertion for the last min(n, L)
\* insertions and the other slots are empty, a key inserted again taking a
\* new slot; the key in the slot under the cursor is the one the next
\* insertion evicts.
C32_RingInvariant == []RingInvariant /\ [][EvictsSlotUnderCursor]_vars

\* a key inserted again after its Entry expired holds both slots of the ring
C32_Witness ==
    /\ cfg.limit = 2 /\ ev.op = "persisted" /\ ev.hit
    /\ ring[0] = ev.key /\ ring[1] = ev.key


\* ------------------------------------------------------------------ C33
\* A refresh trigger (after read or periodic) together with everything that
\* can remove or replace an Entry while a refresh is under way: time to
\* live, limit, cacheWhen.
ConfigsRefreshFrame ==
    {c \in Config : (c.rar \/ c.interval > 0) /\ ~c.reset /\ c.cooldown = 0
                    /\ c.limit < 2}

InitRefreshFrame == InitWith(ConfigsRefreshFrame)

NextRefreshFrame ==
    \/ \E k \in Keys : Call(k)
    \/ \E p \in procs : PersistFetched(p)
    \/ \E p \in procs, b \in BOOLEAN : PersistCacheWhen(p, b)
    \/ \E p \in procs, b \in BOOLEAN : UpdateCacheWhen(p, b)
    \/ \E p \in procs : UpdateCommit(p)
    \/ \E p \in procs : RefreshFetched(p)
    \/ \E p \in procs, b \in BOOLEAN : RefreshCacheWhen(p, b)
    \/ \E v \in unresolved : Resolve(v)
    \/ \E id \in DOMAIN ents : ExpirationFires(id)
    \/ \E id \in DOMAIN ents : IntervalFires(id)
    \/ Tick

SpecRefreshFrame == InitRefreshFrame /\ [][NextRefreshFrame]_vars

\* the Entry object e with the value and the modification time of a refresh
Refreshed(e, value) == [e EXCEPT !.val = value, !.modified = now]

\* C33: a refresh that has passed the cooldown check and cacheWhen writes the
\* fetched value and modified = now into its Entry and changes nothing else:
\* the Entry keeps its key and its timers as they are, no other Entry
\* changes, and the map, the ring and the cursor are as before.
C33_RefreshWritesValueOnly ==
    [][ev'.op = "written"
       => \E p \in procs \ procs' :
            /\ p.kind \in {"update", "refresh"} /\ p.val = ev'.val
            /\ p.ent \in DOMAIN ents'
                 => ents'[p.ent] = Refreshed(ents[p.ent], p.val)
            /\ \A id \in DOMAIN ents' \ {p.ent} : ents'[id] = ents[id]
            /\ UNCHANGED <<cache, ring, persistCounter, calls>>]_vars


\* ------------------------------------------------------------------ C34
\* the timers of Entry object e, the deadline of its refresh interval apart
TimersOf(e) == <<e.exp, e.ref.st>>

\* C34: a refresh attempt for a key that has no Entry in the map (a tick of
\* a refresh interval; a read finds no Entry to trigger from) does nothing:
\* the underlying function and cacheWhen are not invoked, and the map, the
\* ring and the timers are left as they were, the interval that has ticked
\* staying armed for its next tick.
C34_RefreshOfAbsentKeyIsNoOp ==
    [][(ev'.op = "tick" /\ cache[ev'.key] = None)
       => /\ UNCHANGED <<cache, ring, persistCounter, calls, procs,
                         unresolved, failed>>
          /\ DOMAIN ents' = DOMAIN ents
          /\ \A id \in DOMAIN ents :
                /\ TimersOf(ents'[id]) = TimersOf(ents[id])
                /\ id # ev'.val => ents'[id] = ents[id]]_vars


\* ------------------------------------------------------------------ C35
\* C35: with limit, when persist has accepted a value for a key and returns,
\* the map holds the Entry it has inserted for that key (the insertion does
\* not evict it, also when the key already holds the ring slot under the
\* cursor), so a retrieve of the key that follows at once hits.
C35_InsertionKeepsItsEntry ==
    (cfg.limit > 0 /\ ev.op = "persisted" /\ ev.hit) => cache[ev.key] = ev.val


\* ------------------------------------------------------------------ C36
\* C36: an expiration timeout that fires removes from the map only the Entry
\* that armed it: a different, newer Entry the map holds under the same key
\* stays in the map, until the timeout it has armed itself fires.
C36_TimeoutRemovesOwnEntry ==
    [][ev'.op = "expire"
       => \A k \in Keys :
            (cache[k] # None /\ cache[k] # ev'.val) => cache'[k] = cache[k]]_vars


\* ------------------------------------------------------------------ C37
\* the place of value v in the order the underlying function was invoked in
\* for its key
Invocation(v) == v[2]

\* C37: a refresh never replaces the value of its Entry by the result of an
\* invocation older than the one the Entry holds the result of: of two
\* refreshes of an Entry in flight together, the one started last decides
\* the value the Entry holds when both have completed.
C37_NewerResultIsKept ==
    [][ev'.op = "written"
       => \A p \in procs \ procs' :
            p.ent \in DOMAIN ents
            => Invocation(ents[p.ent].val) < Invocation(p.val)]_vars


\* ------------------------------------------------------------------ C38
\* the keys that hold a slot of the eviction ring
InRing == {ring[slot] : slot \in DOMAIN ring} \ {NoKey}

\* C38: with limit, every key in the cache map holds at least one slot of
\* the eviction ring, so that no Entry is in the map out of the reach of
\* eviction.
C38_CachedKeysAreInRing == cfg.limit > 0 => Cached \subseteq InRing

====
